---- MODULE Spec2Model ----
(***************************************************************************)
(* Model of the chiptune player: score building (file_reader.NoteSheet)    *)
(* and the render pass (player.NotePlayer.play_from_sheet_music).          *)
(*                                                                         *)
(* Arithmetic is exact (the source computes in IEEE doubles; rounding is   *)
(* not modelled):                                                          *)
(*   - times are integers in units of 1 / (2 * bpm * sample_freq) seconds, *)
(*     so beat_time = 60 / bpm is 120 * sample_freq units, a buffer of     *)
(*     buffer_size samples lasts 2 * buffer_size * bpm units, and a note   *)
(*     of h half-beats lasts 60 * h * sample_freq units;                   *)
(*   - phases are integers in units of 2*pi / sample_freq radians, so the  *)
(*     k-th entry of _base_func * note / sample_freq is k * note;          *)
(*   - gains and samples are rationals <<numerator, denominator>> in       *)
(*     lowest terms with a positive denominator.                           *)
(* The gain smoothing alone is also modelled in the doubles the source     *)
(* computes it in (arith = "binary64", specification SpecGain): there a    *)
(* gain is <<hi, lo>>, the double's value in units of 2^-56 written as     *)
(* hi * 2^28 + lo.                                                         *)
(* Note durations are counted in half-beats (field beats2): the token      *)
(* "E4-sin-0.5" has beats2 = 1.                                            *)
(***************************************************************************)
EXTENDS Integers, Sequences, FiniteSets, TLC

VARIABLES
    notes,          \* argument of NoteSheet.set_notes: the beat records
    bpm,            \* NoteSheet._bpm
    sheet,          \* NoteSheet._sheet (None and [] are both <<>>: both falsy)
    sample_freq,    \* NotePlayer._sample_freq
    buffer_duration,\* NotePlayer.__init__'s buffer_size argument (seconds)
    buffer_size,    \* NotePlayer._buffer_size (samples)
    notes_queue,    \* NotePlayer._notes_queue: Sound -> [phase, gain]
    pc,             \* position: "new", "ready", "loop", "done", "raised"
    error,          \* the exception that ended the pass, or "none"
    num_buffers,    \* play_from_sheet_music: num_buffers
    buffer,         \* play_from_sheet_music: the loop index
    current_time,   \* play_from_sheet_music: current_time
    current_beat,   \* play_from_sheet_music: current_beat
    current_notes,  \* play_from_sheet_music: current_notes
    buffers,        \* play_from_sheet_music: buffers
    written,        \* what play_buffers wrote to the stream
    created,        \* history: one record per PlayingNote made (tick, beat, position, entry)
    fetched,        \* history: the position in the sheet each tick fetched notes_to_play from
    age             \* history: Sound -> consecutive ticks it has been in _notes_queue

vars == <<notes, bpm, sheet, sample_freq, buffer_duration, buffer_size,
          notes_queue, pc, error, num_buffers, buffer, current_time,
          current_beat, current_notes, buffers, written, created, fetched, age>>

-----------------------------------------------------------------------------
(* Bounds of the inputs *)

MaxRecords == 2      \* beat records handed to set_notes
MaxBeatIndex == 1    \* largest beat index of a record
MaxNotes == 3        \* note tokens in all records together
MaxSustain == 56     \* SpecGain: consecutive calls of set_sounds that keep a sound

SampleFreqs == {220}
Tempos == {3300}
\* buffer durations in seconds, <<numerator, denominator>>
BufferDurations == {<<1, 220>>, <<1, 110>>, <<7, 440>>}

\* The note tokens "A1-sin-1", "A1-sin-0", "A1-square-4", "A2-sawtooth-0.5"
NoteStrings ==
    { [name |-> "A", octave |-> 1, wave |-> "sin",      duration2 |-> 2],
      [name |-> "A", octave |-> 1, wave |-> "sin",      duration2 |-> 0],
      [name |-> "A", octave |-> 1, wave |-> "square",   duration2 |-> 8],
      [name |-> "A", octave |-> 2, wave |-> "sawtooth", duration2 |-> 1] }

-----------------------------------------------------------------------------
(* Rationals *)

RECURSIVE GCD(_, _)
GCD(a, b) == IF b = 0 THEN a ELSE GCD(b, a % b)

Abs(x) == IF x < 0 THEN -x ELSE x

RNorm(r) ==
    LET g == GCD(Abs(r[1]), r[2])
    IN  <<r[1] \div g, r[2] \div g>>

RAdd(a, b) ==
    LET l == (a[2] \div GCD(a[2], b[2])) * b[2]
    IN  RNorm(<<a[1] * (l \div a[2]) + b[1] * (l \div b[2]), l>>)

RScale(x, r) == RNorm(<<x * r[1], r[2]>>)

RDivInt(r, n) == RNorm(<<r[1], r[2] * n>>)

RZero == <<0, 1>>

-----------------------------------------------------------------------------
(* music_utils *)

BASE_FREQUENCY == 55

\* Note.__init__ for the letter A (DELTAS['A'] = 0): 55 * 2^(octave - 1)
NoteFreq(name, octave) == BASE_FREQUENCY * 2^(octave - 1)

\* quarter-turn index of a phase p (units of 2*pi / sf); the phases of the
\* model are whole quarter turns
Quarter(p, sf) == ((4 * p) \div sf) % 4

sin(p, sf) ==
    CASE Quarter(p, sf) = 0 -> 0
      [] Quarter(p, sf) = 1 -> 1
      [] Quarter(p, sf) = 2 -> 0
      [] Quarter(p, sf) = 3 -> -1

square(p, sf) == IF sin(p, sf) > 0 THEN 1 ELSE -1

\* ((t % pi) / pi - 0.5) * 2
sawtooth(p, sf) == (Quarter(p, sf) % 2) - 1

\* cos(t) > 0 only at quarter 0, where up_t = ((-pi) % 2pi) / pi - 1 = 0;
\* elsewhere down_t = ((-2 (t - pi/2)) % 2pi) / pi - 1
triangle(p, sf) ==
    IF Quarter(p, sf) = 0 THEN 0
    ELSE (((2 * (1 - Quarter(p, sf))) % 4) \div 2) - 1

\* Wave.__call__
Wave(w, p, sf) ==
    CASE w = "sin"      -> sin(p, sf)
      [] w = "square"   -> square(p, sf)
      [] w = "sawtooth" -> sawtooth(p, sf)
      [] w = "triangle" -> triangle(p, sf)

-----------------------------------------------------------------------------
(* file_reader.NoteSheet *)

ReadNote(note, beats2, wave) == [note |-> note, beats2 |-> beats2, wave |-> wave]

\* the body of the inner loop of set_notes: one token to one ReadNote
ParseNote(str) == ReadNote(NoteFreq(str.name, str.octave), str.duration2, str.wave)

EmptyBeats(n) == [k \in 1..n |-> <<>>]

RECURSIVE SetNotesLoop(_, _, _, _)
SetNotesLoop(recs, i, sh, last_index) ==
    IF i > Len(recs) THEN sh
    ELSE LET beat_index == recs[i].beat_index
             pad == IF last_index < beat_index THEN beat_index - last_index ELSE 0
             notes_in_beat == [j \in 1..Len(recs[i].strs) |-> ParseNote(recs[i].strs[j])]
         IN  SetNotesLoop(recs, i + 1,
                          sh \o EmptyBeats(pad) \o <<notes_in_beat>>,
                          IF last_index < beat_index THEN beat_index ELSE last_index)

set_notes(recs) == SetNotesLoop(recs, 1, <<>>, 0)

\* 60.0 / bpm seconds
beat_time(sf) == 120 * sf

RECURSIVE MaxBeats2(_, _)
MaxBeats2(beat, i) ==
    IF i = Len(beat) THEN beat[i].beats2
    ELSE LET rest == MaxBeats2(beat, i + 1)
         IN  IF beat[i].beats2 > rest THEN beat[i].beats2 ELSE rest

\* as PlayTimeRaises, without the "if not self._sheet" guard: self._sheet[-1]
\* of an empty sheet raises too
PlayTimeRaises_unguarded(sh) == sh = <<>> \/ sh[Len(sh)] = <<>>

\* play_time raises ValueError: max() of an empty sequence
PlayTimeRaises(sh) == sh # <<>> /\ sh[Len(sh)] = <<>>

play_time(sh, sf) ==
    IF sh = <<>> THEN 0
    ELSE ((2 * Len(sh) + MaxBeats2(sh[Len(sh)], 1)) * beat_time(sf)) \div 2

-----------------------------------------------------------------------------
(* player *)

Sound(note, waveform) == [note |-> note, waveform |-> waveform]

PlayingNote(sound, duration_in_seconds) ==
    [sound |-> sound, duration |-> duration_in_seconds,
     remaining_duration |-> duration_in_seconds]

\* as alive, a note with nothing left still counted
alive_nonneg(n) == n.remaining_duration >= 0

alive(n) == n.remaining_duration > 0

decrease_duration(n, decrease) ==
    IF alive(n) THEN [n EXCEPT !.remaining_duration = @ - decrease] ELSE n

\* NotePlayer.__init__: int(buffer_size * sample_freq)
BufferSize(duration, sf) == (duration[1] * sf) \div duration[2]

\* _buffer_size / sample_freq seconds
BufferTime(bs, tempo) == 2 * bs * tempo

SoundsOf(playing) == {playing[i].sound : i \in 1..Len(playing)}

\* as InCurrentNotes, with the membership test lost
InCurrentNotes_never(sound, playing) == FALSE

\* process_notes line 104: the Sound is among the current notes' sounds
InCurrentNotes(sound, playing) == sound \in SoundsOf(playing)

\* process_notes lines 102-109; made lists the entries that made a PlayingNote
RECURSIVE AppendDue(_, _, _, _, _)
AppendDue(notes_to_play, j, bt, playing, made) ==
    IF j > Len(notes_to_play) THEN [playing |-> playing, made |-> made]
    ELSE LET note_to_play == notes_to_play[j]
             note_as_sound == Sound(note_to_play.note, note_to_play.wave)
             duration == (note_to_play.beats2 * bt) \div 2
         IN  IF ~InCurrentNotes(note_as_sound, playing)
             THEN AppendDue(notes_to_play, j + 1, bt,
                            Append(playing, PlayingNote(note_as_sound, duration)),
                            Append(made, j))
             ELSE AppendDue(notes_to_play, j + 1, bt, playing, made)

\* process_notes lines 110-113
DropAndDecrease(playing, buffer_time) ==
    LET live == SelectSeq(playing, alive)
    IN  [i \in 1..Len(live) |-> decrease_duration(live[i], buffer_time)]

process_notes(notes_to_play, bt, playing, buffer_time) ==
    DropAndDecrease(AppendDue(notes_to_play, 1, bt, playing, <<>>).playing, buffer_time)

\* entry k (from 0) of _base_func * note / sample_freq
BasePhase(k, note) == k * note

InitialGain == <<1, 10>>

NextGain(gain) == RNorm(<<gain[1] + gain[2], 2 * gain[2]>>)

\* Doubles in [2^-4, 1] as <<hi, lo>>: the value is (hi * 2^28 + lo) * 2^-56
Limb == 2^28

F64_One == <<Limb, 0>>

\* the double nearest 0.1: 0x1999999999999A * 2^-56
F64_Tenth == <<26843545, 161061274>>

F64_Less(a, b) == a[1] < b[1] \/ (a[1] = b[1] /\ a[2] < b[2])

\* as NextGain64, without the smoothing step
NextGain64_kept(gain) == gain

\* (gain + 1) / 2 in binary64: gain + 1 lies in [1, 2], where doubles are
\* the multiples of 2^-52 (16 units), so the sum is rounded to the nearest
\* multiple of 16 units, ties to the even one; halving is exact
NextGain64(gain) ==
    LET r    == gain[2] % 16
        down == gain[2] - r
        up   == r > 8 \/ (r = 8 /\ (gain[2] \div 16) % 2 = 1)
        lo   == IF up THEN (down + 16) % Limb ELSE down
        hi   == (IF up /\ down + 16 = Limb THEN gain[1] + 1 ELSE gain[1]) + Limb
    IN  <<hi \div 2, (lo \div 2) + (hi % 2) * (Limb \div 2)>>

\* the literal 0.1 of line 90, in the arithmetic modelled
FirstGain(arith) == IF arith = "binary64" THEN F64_Tenth ELSE InitialGain

\* (gain + 1) / 2 of line 86, in the arithmetic modelled
Smoothed(gain, arith) == IF arith = "binary64" THEN NextGain64(gain) ELSE NextGain(gain)

\* the phase a sound found in the queue starts its next buffer with (line 85)
ContinuedPhase(old_phase) == old_phase[Len(old_phase)]

_add_sound_to_queue(sound, queue, bs, arith) ==
    IF sound \in DOMAIN queue
    THEN [phase |-> [k \in 1..bs |->
                        ContinuedPhase(queue[sound].phase) + BasePhase(k - 1, sound.note)],
          gain  |-> Smoothed(queue[sound].gain, arith)]
    ELSE [phase |-> [k \in 1..bs |-> BasePhase(k - 1, sound.note)],
          gain  |-> FirstGain(arith)]

\* as set_sounds, the sounds of the old queue carried over
set_sounds_keep(sounds, queue, bs, arith) ==
    [s \in {sounds[i] : i \in 1..Len(sounds)} \cup DOMAIN queue |->
        _add_sound_to_queue(s, queue, bs, arith)]

set_sounds(sounds, queue, bs, arith) ==
    [s \in {sounds[i] : i \in 1..Len(sounds)} |->
        _add_sound_to_queue(s, queue, bs, arith)]

\* one sample of one component wave: wave_gen(note_data[0]) * note_data[1]
Component(queue, s, k, sf) == RScale(Wave(s.waveform, queue[s].phase[k], sf), queue[s].gain)

RECURSIVE SumComponents(_, _, _, _)
SumComponents(queue, S, k, sf) ==
    IF S = {} THEN RZero
    ELSE LET s == CHOOSE x \in S : TRUE
         IN  RAdd(Component(queue, s, k, sf), SumComponents(queue, S \ {s}, k, sf))

\* as Mixdown, the sum left undivided
Mixdown_sum(total, count) == total

\* np.sum(component_waves, axis=0) / len(component_waves), one sample
Mixdown(total, count) == RDivInt(total, count)

export_buffer(queue, bs, sf) ==
    IF DOMAIN queue # {}
    THEN [k \in 1..bs |-> Mixdown(SumComponents(queue, DOMAIN queue, k, sf),
                                  Cardinality(DOMAIN queue))]
    ELSE [k \in 1..bs |-> RZero]

-----------------------------------------------------------------------------
(* The inputs *)

IndexSeqs ==
    {s \in UNION {[1..n -> 0..MaxBeatIndex] : n \in 0..MaxRecords} :
        \A i \in 1..(Len(s) - 1) : s[i] < s[i + 1]}

RECURSIVE SumSeq(_, _)
SumSeq(s, i) == IF i > Len(s) THEN 0 ELSE s[i] + SumSeq(s, i + 1)

Splits(n, m) == {l \in [1..n -> 0..m] : SumSeq(l, 1) = m}

Records(idx, toks, lens) ==
    [i \in 1..Len(idx) |->
        [beat_index |-> idx[i],
         strs |-> SubSeq(toks, SumSeq(SubSeq(lens, 1, i - 1), 1) + 1,
                               SumSeq(SubSeq(lens, 1, i), 1))]]

\* records sorted by strictly increasing beat index, each with its note tokens
NoteLists ==
    UNION { UNION { {Records(idx, toks, lens) :
                        toks \in [1..m -> NoteStrings], lens \in Splits(Len(idx), m)}
                    : m \in 0..MaxNotes }
            : idx \in IndexSeqs }

-----------------------------------------------------------------------------
(* The state machine *)

Init ==
    /\ notes \in NoteLists
    /\ bpm \in Tempos
    /\ sample_freq \in SampleFreqs
    /\ buffer_duration \in BufferDurations
    /\ buffer_size = BufferSize(buffer_duration, sample_freq)
    /\ sheet = <<>>
    /\ notes_queue = <<>>
    /\ pc = "new"
    /\ error = "none"
    /\ num_buffers = 0
    /\ buffer = 0
    /\ current_time = 0
    /\ current_beat = 0
    /\ current_notes = <<>>
    /\ buffers = <<>>
    /\ written = <<>>
    /\ created = <<>>
    /\ fetched = <<>>
    /\ age = <<>>

\* NoteSheet.set_notes
SetNotes ==
    /\ pc = "new"
    /\ sheet' = set_notes(notes)
    /\ pc' = "ready"
    /\ UNCHANGED <<notes, bpm, sample_freq, buffer_duration, buffer_size,
                   notes_queue, error, num_buffers, buffer, current_time,
                   current_beat, current_notes, buffers, written, created, fetched, age>>

\* play_from_sheet_music, lines 116-126
PlayStart ==
    /\ pc \in {"new", "ready"}
    /\ IF PlayTimeRaises(sheet)
       THEN /\ pc' = "raised"
            /\ error' = "ValueError"
            /\ num_buffers' = num_buffers
       ELSE /\ pc' = "loop"
            /\ error' = error
            /\ num_buffers' = play_time(sheet, sample_freq) \div (2 * bpm * buffer_size)
    /\ UNCHANGED <<notes, bpm, sheet, sample_freq, buffer_duration, buffer_size,
                   notes_queue, buffer, current_time, current_beat,
                   current_notes, buffers, written, created, fetched, age>>

LoopRuns == buffer < num_buffers /\ ~(current_beat > Len(sheet))

Min(a, b) == IF a < b THEN a ELSE b

\* as BeatAt, counting two beats for each beat_time gone by
BeatAt_double(time, sf) == 2 * (time \div beat_time(sf))

\* line 137: int(current_time / beat_time)
BeatAt(time, sf) == time \div beat_time(sf)

\* play_from_sheet_music, one pass of the loop body, lines 127-137
Tick ==
    /\ pc = "loop"
    /\ LoopRuns
    /\ LET pos == Min(current_beat, Len(sheet) - 1) + 1
           notes_to_play == sheet[pos]
           buffer_time == BufferTime(buffer_size, bpm)
           due == AppendDue(notes_to_play, 1, beat_time(sample_freq), current_notes, <<>>)
           playing == process_notes(notes_to_play, beat_time(sample_freq),
                                    current_notes, buffer_time)
           current_notes_as_sounds == [i \in 1..Len(playing) |-> playing[i].sound]
           queue == set_sounds(current_notes_as_sounds, notes_queue, buffer_size, "exact")
       IN  /\ current_notes' = playing
           /\ notes_queue' = queue
           /\ buffers' = Append(buffers, export_buffer(queue, buffer_size, sample_freq))
           /\ current_time' = current_time + buffer_time
           /\ current_beat' = BeatAt(current_time + buffer_time, sample_freq)
           /\ created' = created \o
                  [i \in 1..Len(due.made) |->
                      [tick |-> buffer, beat |-> current_beat, pos |-> pos,
                       entry |-> due.made[i]]]
           /\ fetched' = Append(fetched, pos)
           /\ age' = [s \in DOMAIN queue |->
                        IF s \in DOMAIN notes_queue THEN age[s] + 1 ELSE 0]
    /\ buffer' = buffer + 1
    /\ UNCHANGED <<notes, bpm, sheet, sample_freq, buffer_duration, buffer_size,
                   pc, error, num_buffers, written>>

\* the loop ends (range exhausted or break) and play_buffers writes the buffers
PlayBuffers ==
    /\ pc = "loop"
    /\ ~LoopRuns
    /\ written' = buffers
    /\ pc' = "done"
    /\ UNCHANGED <<notes, bpm, sheet, sample_freq, buffer_duration, buffer_size,
                   notes_queue, error, num_buffers, buffer, current_time,
                   current_beat, current_notes, buffers, created, fetched, age>>

Next == SetNotes \/ PlayStart \/ Tick \/ PlayBuffers

Spec == Init /\ [][Next]_vars

-----------------------------------------------------------------------------
(* The gain smoothing in doubles: set_sounds called over and over *)

\* the lists of sounds handed to set_sounds
SoundLists ==
    { <<>>, <<Sound(55, "sin")>>, <<Sound(110, "sawtooth")>>,
      <<Sound(55, "sin"), Sound(110, "sawtooth")>> }

InitGain ==
    /\ notes = <<>>
    /\ bpm \in Tempos
    /\ sample_freq \in SampleFreqs
    /\ buffer_duration \in BufferDurations
    /\ buffer_size = BufferSize(buffer_duration, sample_freq)
    /\ sheet = <<>>
    /\ notes_queue = <<>>
    /\ pc = "sounds"
    /\ error = "none"
    /\ num_buffers = 0
    /\ buffer = 0
    /\ current_time = 0
    /\ current_beat = 0
    /\ current_notes = <<>>
    /\ buffers = <<>>
    /\ written = <<>>
    /\ created = <<>>
    /\ fetched = <<>>
    /\ age = <<>>

\* NotePlayer.set_sounds
SetSounds ==
    /\ pc = "sounds"
    /\ \E sounds \in SoundLists :
          LET queue == set_sounds(sounds, notes_queue, buffer_size, "binary64")
          IN  /\ \A s \in DOMAIN queue \cap DOMAIN notes_queue : age[s] < MaxSustain
              /\ notes_queue' = queue
              /\ age' = [s \in DOMAIN queue |->
                            IF s \in DOMAIN notes_queue THEN age[s] + 1 ELSE 0]
    /\ UNCHANGED <<notes, bpm, sheet, sample_freq, buffer_duration, buffer_size,
                   pc, error, num_buffers, buffer, current_time, current_beat,
                   current_notes, buffers, written, created, fetched>>

NextGainSteps == SetSounds

SpecGain == InitGain /\ [][NextGainSteps]_vars

-----------------------------------------------------------------------------
(* Properties *)

Rendering == pc \in {"loop", "done"}

LastBeat == sheet[Len(sheet)]

KeyOf(read_note) == Sound(read_note.note, read_note.wave)

\* the entries of a beat that share their Sound key with another entry of it
SameKeyTwice(beat) ==
    \E i, j \in 1..Len(beat) : i < j /\ KeyOf(beat[i]) = KeyOf(beat[j])

\* C1: after every tick of a render pass the list of active notes holds at
\* most one entry per Sound key (frequency, waveform).
C1_OneActivePerSound ==
    \A i, j \in 1..Len(current_notes) :
        current_notes[i].sound = current_notes[j].sound => i = j

\* the last tick fetched a beat that names one key twice while a note of that
\* key was already active (no note was made at that tick), beside another note
C1_Witness ==
    /\ pc = "loop"
    /\ Len(fetched) >= 2
    /\ SameKeyTwice(sheet[fetched[Len(fetched)]])
    /\ \E e \in 1..Len(sheet[fetched[Len(fetched)]]) :
          /\ KeyOf(sheet[fetched[Len(fetched)]][e]) \in SoundsOf(current_notes)
          /\ \A c \in 1..Len(created) : created[c].tick < buffer - 1
    /\ Len(current_notes) >= 2

\* C2: over a whole render pass one score entry makes at most one
\* PlayingNote.
C2_EntryConsumedOnce ==
    \A a, b \in 1..Len(created) :
        (created[a].pos = created[b].pos /\ created[a].entry = created[b].entry)
            => a = b

Silent(buf) == \A k \in 1..Len(buf) : buf[k][1] = 0

SingleOneBeatNote ==
    /\ Len(sheet) = 1
    /\ Len(sheet[1]) = 1
    /\ sheet[1][1].beats2 = 2

\* C3: no PlayingNote is made at a tick whose current_beat is past the last
\* beat index of the score; and for a score of one note at beat 0 lasting one
\* beat, every buffer of a tick that starts at or after the note's end
\* (elapsed time >= 1 * beat_time) is all-zero.
C3_NoStartsPastTheScore ==
    /\ \A c \in 1..Len(created) : created[c].beat <= Len(sheet) - 1
    /\ SingleOneBeatNote =>
          \A t \in 1..Len(buffers) :
              (t - 1) * BufferTime(buffer_size, bpm) >= beat_time(sample_freq)
                  => Silent(buffers[t])

\* floor(sample_rate * play_time / buffer_size)
TotalBuffers == play_time(sheet, sample_freq) \div (2 * bpm * buffer_size)

\* C4: a render pass that completes has rendered exactly
\* floor(sample_rate * play_time / buffer_size) buffers and handed all of
\* them to the stream.
C4_RendersTotalBuffers ==
    pc = "done" => (Len(buffers) = TotalBuffers /\ written = buffers)

\* C5: a Sound in the registry at two consecutive ticks starts its next
\* buffer one sample-step (note * 2*pi / sample_freq) after the last phase of
\* its previous buffer.
C5_PhaseContinuity ==
    [][(pc = "loop" /\ buffer' = buffer + 1) =>
          \A s \in DOMAIN notes_queue \cap DOMAIN notes_queue' :
              notes_queue'[s].phase[1] =
                  notes_queue[s].phase[buffer_size] + s.note]_vars

NotesOf(rec) == [j \in 1..Len(rec.strs) |-> ParseNote(rec.strs[j])]

\* C6: set_notes puts the notes of the record with beat index i at position
\* i of the sheet (counted from 0) and leaves every other position empty.
C6_BeatIndexIsPosition ==
    pc = "ready" =>
        /\ \A r \in 1..Len(notes) :
              /\ notes[r].beat_index + 1 <= Len(sheet)
              /\ sheet[notes[r].beat_index + 1] = NotesOf(notes[r])
        /\ \A p \in 1..Len(sheet) :
              (\A r \in 1..Len(notes) : notes[r].beat_index # p - 1)
                  => sheet[p] = <<>>

\* In exact arithmetic (specification Spec) the gain of a Sound at its k-th
\* consecutive tick in the registry is 1 - 0.9 / 2^k.
ExactGainLadder ==
    \A s \in DOMAIN notes_queue :
        /\ notes_queue[s].gain = <<10 * 2^age[s] - 9, 10 * 2^age[s]>>
        /\ notes_queue[s].gain[1] < notes_queue[s].gain[2]

\* C7, as stated: the gain of a Sound in the registry is strictly below 1.0
\* at every tick.
C7_GainBelowOne ==
    \A s \in DOMAIN notes_queue : F64_Less(notes_queue[s].gain, F64_One)

\* C7, amended: in the doubles of the source, a Sound enters the registry
\* with gain 0.1; at each following consecutive tick its gain is
\* (gain + 1) / 2; the gain is strictly increasing and strictly below 1.0 up
\* to its 53rd consecutive tick and exactly 1.0 from its 54th on (the tick at
\* which the double (gain + 1) / 2 rounds to 1.0).
C7_GainLadder64 ==
    [][\A s \in DOMAIN notes_queue' :
          /\ age'[s] = 0 => notes_queue'[s].gain = F64_Tenth
          /\ age'[s] < 54 => F64_Less(notes_queue'[s].gain, F64_One)
          /\ age'[s] >= 54 => notes_queue'[s].gain = F64_One
          /\ age'[s] \in 1..54 =>
                F64_Less(notes_queue[s].gain, notes_queue'[s].gain)]_vars

C7_Witness ==
    \E s \in DOMAIN notes_queue :
        age[s] > 54 /\ notes_queue[s].gain = F64_One

\* C8: rendering a score whose final beat is empty raises no error.
C8_EmptyFinalBeatRenders ==
    (sheet # <<>> /\ LastBeat = <<>>) => (pc # "raised" /\ error = "none")

\* C9: an empty score has play_time 0, and rendering it yields zero buffers,
\* writes nothing and raises no error.
C9_EmptyScore ==
    (sheet = <<>> /\ pc \notin {"new", "ready"}) =>
        /\ Rendering
        /\ error = "none"
        /\ num_buffers = 0
        /\ buffers = <<>>
        /\ written = <<>>

C9_Witness == sheet = <<>> /\ pc = "done" /\ notes = <<>>

InUnitRange(r) == -r[2] <= r[1] /\ r[1] <= r[2]

\* C10: every sample of every buffer is in [-1, 1]; the samples of the
\* buffer just rendered, times the number of sounds in the registry, are the
\* sums of the sounds' gain-scaled samples; with an empty registry the buffer
\* is buffer_size zero samples.
C10_MixdownIsMean ==
    /\ \A t \in 1..Len(buffers) :
          /\ Len(buffers[t]) = buffer_size
          /\ \A k \in 1..buffer_size : InUnitRange(buffers[t][k])
    /\ (pc = "loop" /\ buffers # <<>>) =>
          \A k \in 1..buffer_size :
              IF DOMAIN notes_queue = {}
              THEN buffers[Len(buffers)][k] = RZero
              ELSE RScale(Cardinality(DOMAIN notes_queue), buffers[Len(buffers)][k])
                      = SumComponents(notes_queue, DOMAIN notes_queue, k, sample_freq)

\* three sounds are mixed at gains past their first tick, into a buffer that
\* is not silent
C10_Witness ==
    /\ pc = "loop"
    /\ buffers # <<>>
    /\ Cardinality(DOMAIN notes_queue) = 3
    /\ \A s \in DOMAIN notes_queue : age[s] >= 1
    /\ ~Silent(buffers[Len(buffers)])

\* round(r) of a rational r >= 0: the nearest integer, a tie to the even one
Round(r) ==
    LET q == r[1] \div r[2]
        twice == 2 * (r[1] % r[2])
    IN  IF twice > r[2] \/ (twice = r[2] /\ q % 2 = 1) THEN q + 1 ELSE q

\* C11: the engine's buffer sample count is round(buffer_duration *
\* sample_rate).
C11_BufferSizeRounded ==
    buffer_size = Round(<<buffer_duration[1] * sample_freq, buffer_duration[2]>>)


\* a step of the render loop: one tick has run
TickStep == buffer' = buffer + 1

\* the sheet position the last tick fetched
LastFetched == fetched[Len(fetched)]

\* the seconds an entry asks for, in the model's time unit
EntryDuration(read_note) == (read_note.beats2 * beat_time(sample_freq)) \div 2

\* the PlayingNotes made by the step: the creation events it appended
MadeByStep == {c \in 1..Len(created') : c > Len(created)}

\* C12: at a tick whose fetched beat holds an entry for a Sound that is
\* already in the registry, no PlayingNote is made for that Sound and the
\* existing one is left alone: a live one keeps its duration and loses
\* exactly buffer_time, its gain is smoothed on from the old gain and its
\* phase goes on from the old buffer's last phase instead of restarting at
\* phase 0 and gain 0.1; an expired one is dropped, not revived.
C12_DueActiveKeyLeftAlone ==
    [][TickStep =>
        \A i \in 1..Len(current_notes) :
            LET n == current_notes[i]
                s == n.sound
                beat == sheet[LastFetched']
            IN  (s \in DOMAIN notes_queue /\ \E e \in 1..Len(beat) : KeyOf(beat[e]) = s) =>
                   /\ \A c \in MadeByStep : KeyOf(beat[created'[c].entry]) # s
                   /\ alive(n) =>
                        /\ \E k \in 1..Len(current_notes') :
                              /\ current_notes'[k] =
                                    [n EXCEPT !.remaining_duration =
                                                  @ - BufferTime(buffer_size, bpm)]
                              /\ \A m \in 1..Len(current_notes') :
                                    current_notes'[m].sound = s => m = k
                        /\ notes_queue'[s].gain = NextGain(notes_queue[s].gain)
                        /\ notes_queue'[s].gain # InitialGain
                        /\ notes_queue'[s].phase[1] - notes_queue[s].phase[buffer_size]
                              \in {0, s.note}
                   /\ ~alive(n) => s \notin DOMAIN notes_queue']_vars

\* the last tick fetched an entry for a Sound that had been in the registry
\* since the tick before, asking for another duration than the live note's,
\* and made nothing
C12_Witness ==
    /\ pc = "loop"
    /\ Len(fetched) >= 2
    /\ \A c \in 1..Len(created) : created[c].tick < buffer - 1
    /\ \E i \in 1..Len(current_notes), e \in 1..Len(sheet[LastFetched]) :
          /\ KeyOf(sheet[LastFetched][e]) = current_notes[i].sound
          /\ EntryDuration(sheet[LastFetched][e]) # current_notes[i].duration
          /\ age[current_notes[i].sound] >= 1
          /\ current_notes[i].sound.note # 0


\* ceil(a / b) of integers a >= 0, b > 0
Ceil(a, b) == (a + b - 1) \div b

\* the buffers a held PlayingNote has been mixed into: its decrements so far
MixedSoFar(n) == (n.duration - n.remaining_duration) \div BufferTime(buffer_size, bpm)

\* a held note was made with a duration D > 0, has lost a whole number of
\* buffer_times, one per buffer of an unbroken run in the registry, and not
\* more than ceil(D / buffer_time) of them
QuantizedSoFar(n) ==
    /\ n.duration > 0
    /\ (n.duration - n.remaining_duration) % BufferTime(buffer_size, bpm) = 0
    /\ n.sound \in DOMAIN notes_queue
    /\ age[n.sound] + 1 = MixedSoFar(n)
    /\ MixedSoFar(n) <= Ceil(n.duration, BufferTime(buffer_size, bpm))

CutByPlayTime ==
    /\ pc = "done"
    /\ buffer = num_buffers
    /\ \E i \in 1..Len(current_notes) :
          /\ current_notes[i].remaining_duration > 0
          /\ \E c \in 1..Len(created) :
                /\ KeyOf(sheet[created[c].pos][created[c].entry]) = current_notes[i].sound
                /\ created[c].tick = buffer - MixedSoFar(current_notes[i])
                /\ created[c].beat < Len(sheet)
                /\ \A t \in 1..created[c].tick : fetched[t] # created[c].pos


\* the creation events of entries that ask for a duration of 0
ZeroMade == {c \in 1..Len(created) :
                EntryDuration(sheet[created[c].pos][created[c].entry]) = 0}

\* C14: an entry with duration 0 is not rejected: a PlayingNote is made for
\* it when its beat is reached, no error is raised, and the note is gone no
\* later than the tick after the one that made it. (It is gone when the tick
\* that made it is over: nothing held has duration 0, the registry holds
\* held notes only, and the key of a zero note just made is not in it.)
C14_ZeroDurationNote ==
    /\ (Len(fetched) >= 1 /\ sheet[1] # <<>> /\ sheet[1][1].beats2 = 0) =>
           \E c \in ZeroMade :
               created[c].tick = 0 /\ created[c].pos = 1 /\ created[c].entry = 1
    /\ \A c \in ZeroMade :
           /\ created[c].beat \in {created[c].pos - 1, Len(sheet)}
           /\ created[c].tick = buffer - 1 =>
                 KeyOf(sheet[created[c].pos][created[c].entry]) \notin DOMAIN notes_queue
    /\ \A i \in 1..Len(current_notes) : current_notes[i].duration > 0
    /\ \A s \in DOMAIN notes_queue :
           \E i \in 1..Len(current_notes) : current_notes[i].sound = s
    /\ pc = "raised" => LastBeat = <<>>

\* the last tick, not the first, made a note of duration 0 while another
\* sound was being mixed
C14_Witness ==
    /\ pc = "loop"
    /\ buffer >= 2
    /\ notes_queue # <<>>
    /\ \E c \in ZeroMade : created[c].tick = buffer - 1


\* the precondition of C15: a buffer is not longer than a beat
BufferWithinBeat == BufferTime(buffer_size, bpm) <= beat_time(sample_freq)

\* between two ticks current_beat stays or goes up by one
BeatSteps == current_beat' \in {current_beat, current_beat + 1}

\* the step is the first tick that fetches its position of the sheet
FirstFetchStep == TickStep /\ \A t \in 1..Len(fetched) : fetched[t] # LastFetched'

\* the step made a PlayingNote for entry e of the beat it fetched, with
\* remaining_duration = duration = beats * beat_time before the decrement of
\* the tick (a note of duration 0 is dropped by the same tick)
MadeFor(e) ==
    LET read_note == sheet[LastFetched'][e]
    IN  /\ \E c \in MadeByStep : created'[c].entry = e
        /\ EntryDuration(read_note) > 0 =>
              \E k \in 1..Len(current_notes') :
                  current_notes'[k] =
                      [sound |-> KeyOf(read_note),
                       duration |-> EntryDuration(read_note),
                       remaining_duration |->
                           EntryDuration(read_note) - BufferTime(buffer_size, bpm)]

\* an earlier entry of the same beat names the key of entry e
NamedEarlier(beat, e) == \E d \in 1..(e - 1) : KeyOf(beat[d]) = KeyOf(beat[e])

\* the pass has a tick at or after the start of the beat at position b
StartReached(b) ==
    Ceil((b - 1) * beat_time(sample_freq), BufferTime(buffer_size, bpm)) < buffer

C16_RegistryIsHeldNotes ==
    Rendering => DOMAIN notes_queue = SoundsOf(current_notes)

\* the last tick dropped a note that had been mixed, and mixed another
C16_Witness ==
    /\ pc = "loop"
    /\ buffer >= 2
    /\ current_notes # <<>>
    /\ \E c \in 1..Len(created) :
          /\ EntryDuration(sheet[created[c].pos][created[c].entry]) > 0
          /\ KeyOf(sheet[created[c].pos][created[c].entry]) \notin DOMAIN notes_queue
          /\ created[c].tick + Ceil(EntryDuration(sheet[created[c].pos][created[c].entry]),
                                    BufferTime(buffer_size, bpm)) = buffer - 1

=============================================================================
